---- MODULE Spec2Model ----
(***************************************************************************)
(* Timestamp-authority verification of a signed entity                     *)
(* (pkg/verifier/tsa.go).                                                  *)
(*                                                                         *)
(* NewVerify reads the entity's timestamp tokens, rejects the entity when  *)
(* there are fewer than `threshold`, reads the signature and the           *)
(* verification content, and then verifies every token with                *)
(* verifySignedTimestamp, which scans the TSA certificate authorities of   *)
(* the trusted material in order and returns the time of the first one     *)
(* under which the token passes every check.                               *)
(*                                                                         *)
(* Times are integers; ZeroTime is Go's zero time.Time (IsZero).  The      *)
(* collaborators the file calls (timestamp-authority's                     *)
(* VerifyTimestampResponse, crypto/x509's Certificate.Verify, the          *)
(* bundle's ValidAtTime) are modelled by what their contract makes of the  *)
(* data handed to them: a token records its signer key, the message it     *)
(* covers and its asserted time; a leaf certificate has a key and an       *)
(* expiry; a certificate authority either chains its leaf to its root or   *)
(* does not; verification content is a certificate lifetime.               *)
(***************************************************************************)
EXTENDS Integers, Sequences, FiniteSets, TLC

\* ---------------------------------------------------------------- bounds

\* Times range over 0..MaxTime.
MaxTime ==
    4

\* Longest TSA certificate-authority list of the trusted material.
MaxCAs ==
    3

\* Longest timestamp list of a signed entity.
MaxTokens ==
    3

\* Largest threshold a verifier is constructed with.
MaxThreshold ==
    3

\* ---------------------------------------------------------------- data

\* Go's time.Time{}: the value IsZero reports, and what a failed scan returns.
ZeroTime ==
    0

Time ==
    ZeroTime..MaxTime

\* TSA signing keys, and the signature bytes a token may cover.
Keys ==
    {"tsaA", "tsaB"}

GoodSig ==
    "sig"

OtherSig ==
    "other"

\* Leaf (TSA signing) certificates: key tsaA's never expires within the
\* modelled times, key tsaB's expires one tick before MaxTime.
LeafCerts ==
    { [key |-> "tsaA", notAfter |-> MaxTime],
      [key |-> "tsaB", notAfter |-> MaxTime - 1] }

\* The validity windows a certificate authority may declare: each bound is
\* unset (ZeroTime) or set, start 1 and end MaxTime - 1, so that a token
\* time can fall before, on, between, on and after the bounds.
WindowStarts ==
    {ZeroTime, 1}

WindowEnds ==
    {ZeroTime, MaxTime - 1}

\* root.CertificateAuthority.  Rooted abstracts Root and Intermediates:
\* whether Leaf chains to Root through Intermediates.  The scan never reads
\* the window of an authority whose leaf does not chain (the chain check
\* comes first), so those carry no window.
CAPool ==
    { ca \in [ Leaf : LeafCerts, Rooted : BOOLEAN,
               ValidityPeriodStart : WindowStarts, ValidityPeriodEnd : WindowEnds ] :
        ~ca.Rooted => ca.ValidityPeriodStart = ZeroTime
                      /\ ca.ValidityPeriodEnd = ZeroTime }

\* A timestamp token: who signed it, over which bytes, asserting which time.
\* Tokens over other bytes than the entity's signature are all alike to the
\* verifier, so one signer stands for them.
TokenPool ==
    { t \in [signer : Keys, msg : {GoodSig, OtherSig}, time : Time] :
        t.msg = OtherSig => t.signer = "tsaA" }

\* bundle.VerificationContent: the lifetime of the signing certificate.
VCPool ==
    { [notBefore |-> ZeroTime, notAfter |-> MaxTime],
      [notBefore |-> 1, notAfter |-> MaxTime - 1] }

\* The inputs of the whole-call specification: tokens over the entity's
\* signature at two distinct times T1 = 1 < T2 = 2, and authorities without
\* a validity window whose leaf chains to the root.
EntityTokens ==
    { t \in TokenPool : t.msg = GoodSig /\ t.time \in {1, 2} }

TrustedCAs ==
    { ca \in CAPool : ca.Rooted /\ ca.ValidityPeriodStart = ZeroTime
                       /\ ca.ValidityPeriodEnd = ZeroTime }

SeqsUpTo(S, n) ==
    UNION { [1..k -> S] : k \in 0..n }

\* ---------------------------------------------------------------- time.Time

IsZero(t) ==
    t = ZeroTime

Before(t, u) ==
    t < u

After(t, u) ==
    t > u

\* ---------------------------------------------------------------- collaborators

\* tsaverification.VerifyTimestampResponse(signedTimestamp, signature,
\* {Roots, Intermediates, TSACertificate: ca.Leaf}): the token must be signed
\* by the candidate's leaf key over the given bytes; it yields the token's
\* asserted time.
VerifyTimestampResponse(tok, sig, ca) ==
    IF tok.signer = ca.Leaf.key /\ tok.msg = sig
    THEN [ok |-> TRUE, time |-> tok.time]
    ELSE [ok |-> FALSE, time |-> ZeroTime]

\* ca.Leaf.Verify({CurrentTime: T, Roots, Intermediates, KeyUsages:
\* timestamping}): the leaf chains to the root and is unexpired at T.
LeafVerify(ca, T) ==
    ca.Rooted /\ T <= ca.Leaf.notAfter

\* verificationContent.ValidAtTime(T, trustedMaterial): T lies in the
\* signing certificate's lifetime.
ValidAtTime(vc, T) ==
    vc.notBefore <= T /\ T <= vc.notAfter

\* ---------------------------------------------------------------- verifySignedTimestamp

\* Lines 96-101: a set start rejects earlier times, a set end later ones.
WithinValidityPeriod_HalfOpen(ca, T) ==
    /\ ~(~IsZero(ca.ValidityPeriodStart) /\ Before(T, ca.ValidityPeriodStart))
    /\ ~(~IsZero(ca.ValidityPeriodEnd) /\ ~Before(T, ca.ValidityPeriodEnd))

WithinValidityPeriod_NoZeroGuard(ca, T) ==
    /\ ~Before(T, ca.ValidityPeriodStart)
    /\ ~After(T, ca.ValidityPeriodEnd)

WithinValidityPeriod(ca, T) ==
    /\ ~(~IsZero(ca.ValidityPeriodStart) /\ Before(T, ca.ValidityPeriodStart))
    /\ ~(~IsZero(ca.ValidityPeriodEnd) /\ After(T, ca.ValidityPeriodEnd))

\* One iteration of the range loop (lines 61-111) for candidate ca: whether
\* it reaches `return timestamp.Time, nil`, the time it returns, and the
\* collaborators it calls before a `continue` or the return.
CandidateChecks(tok, sig, ca, vc) ==
    LET ts == VerifyTimestampResponse(tok, sig, ca)
    IN  IF ~ts.ok
        THEN [pass |-> FALSE, time |-> ZeroTime,
              calls |-> {"VerifyTimestampResponse"}]
        ELSE IF ~LeafVerify(ca, ts.time)
        THEN [pass |-> FALSE, time |-> ZeroTime,
              calls |-> {"VerifyTimestampResponse", "Leaf.Verify"}]
        ELSE IF ~WithinValidityPeriod(ca, ts.time)
        THEN [pass |-> FALSE, time |-> ZeroTime,
              calls |-> {"VerifyTimestampResponse", "Leaf.Verify"}]
        ELSE IF ~ValidAtTime(vc, ts.time)
        THEN [pass |-> FALSE, time |-> ZeroTime,
              calls |-> {"VerifyTimestampResponse", "Leaf.Verify", "ValidAtTime"}]
        ELSE [pass |-> TRUE, time |-> ts.time,
              calls |-> {"VerifyTimestampResponse", "Leaf.Verify", "ValidAtTime"}]

\* verifySignedTimestamp as a function of its arguments (lines 57-114): the
\* result of the scan of cas from candidate c on.
RECURSIVE ScanFrom(_, _, _, _, _)
ScanFrom(tok, sig, cas, vc, c) ==
    IF c > Len(cas)
    THEN [ok |-> FALSE, time |-> ZeroTime]
    ELSE LET r == CandidateChecks(tok, sig, cas[c], vc)
         IN  IF r.pass
             THEN [ok |-> TRUE, time |-> r.time]
             ELSE ScanFrom(tok, sig, cas, vc, c + 1)

verifySignedTimestamp(tok, sig, cas, vc) ==
    ScanFrom(tok, sig, cas, vc, 1)

\* ---------------------------------------------------------------- state

VARIABLES
    threshold,            \* TimestampAuthorityVerifier.threshold
    trustedMaterial,      \* TSACertificateAuthorities() of .trustedMaterial
    entity,               \* the SignedEntity handed to Verify
    pc,                   \* where the call stands
    signedTimestamps,     \* NewVerify's local: what Timestamps() returned
    timestampsErr,        \* NewVerify's local: whether Timestamps() failed
    signatureBytes,       \* NewVerify's local
    verificationContent,  \* NewVerify's local
    verifiedTimestamps,   \* NewVerify's local
    idx,                  \* position of the token loop (line 47)
    tried,                \* candidates the scan of the current token has tried
    scanRes,              \* what verifySignedTimestamp returned for it
    ret,                  \* what NewVerify returned
    verifyRet,            \* what Verify returned
    calls                 \* accessors and collaborators called so far

vars ==
    << threshold, trustedMaterial, entity, pc, signedTimestamps, timestampsErr,
       signatureBytes, verificationContent, verifiedTimestamps, idx, tried,
       scanRes, ret, verifyRet, calls >>

ErrNotEnough ==
    "not enough signed timestamps"

ErrUnableTimestamp ==
    "unable to verify timestamp"

ErrUnableSigned ==
    "Unable to verify signed timestamps"

ErrSignatureContent ==
    "SignatureContent error"

ErrVerificationContent ==
    "VerificationContent error"

NoError ==
    "nil"

Pending ==
    "pending"

\* A return of NewVerify: the error, and the slice (nil on every failure).
Failure(e, n, k) ==
    [err |-> e, isNil |-> TRUE, times |-> << >>, observed |-> n, required |-> k]

Success(times) ==
    [err |-> NoError, isNil |-> FALSE, times |-> times, observed |-> 0, required |-> 0]

NotReturned ==
    [err |-> Pending, isNil |-> TRUE, times |-> << >>, observed |-> 0, required |-> 0]

NoScan ==
    [ok |-> FALSE, time |-> ZeroTime, err |-> Pending, via |-> 0]

NoContent ==
    [notBefore |-> ZeroTime, notAfter |-> ZeroTime]

Entities ==
    [ timestamps : SeqsUpTo(EntityTokens, MaxTokens), timestampsErr : BOOLEAN,
      signature : {GoodSig}, signatureErr : BOOLEAN,
      content : {[notBefore |-> ZeroTime, notAfter |-> MaxTime]},
      contentErr : BOOLEAN ]

\* NewTimestampAuthorityVerifier(trustedMaterial, threshold), and a call of
\* Verify(entity) about to start.
Init ==
    /\ threshold \in 0..MaxThreshold
    /\ trustedMaterial \in SeqsUpTo(TrustedCAs, MaxCAs)
    /\ entity \in Entities
    /\ pc = "call"
    /\ signedTimestamps = << >>
    /\ timestampsErr = FALSE
    /\ signatureBytes = ""
    /\ verificationContent = NoContent
    /\ verifiedTimestamps = << >>
    /\ idx = 0
    /\ tried = << >>
    /\ scanRes = NoScan
    /\ ret = NotReturned
    /\ verifyRet = Pending
    /\ calls = {}

\* ---------------------------------------------------------------- NewVerify

\* Line 27: signedTimestamps, err := entity.Timestamps().
GetTimestamps_EagerContent ==
    /\ pc = "call"
    /\ signedTimestamps' = entity.timestamps
    /\ timestampsErr' = entity.timestampsErr
    /\ calls' = calls \cup {"Timestamps", "SignatureContent", "VerificationContent"}
    /\ pc' = "threshold"
    /\ UNCHANGED << threshold, trustedMaterial, entity, signatureBytes,
                    verificationContent, verifiedTimestamps, idx, tried,
                    scanRes, ret, verifyRet >>

GetTimestamps ==
    /\ pc = "call"
    /\ signedTimestamps' = entity.timestamps
    /\ timestampsErr' = entity.timestampsErr
    /\ calls' = calls \cup {"Timestamps"}
    /\ pc' = "threshold"
    /\ UNCHANGED << threshold, trustedMaterial, entity, signatureBytes,
                    verificationContent, verifiedTimestamps, idx, tried,
                    scanRes, ret, verifyRet >>

\* Line 30: err != nil || len(signedTimestamps) < p.threshold.
NotEnough_ErrIgnored(failed, tokens, k) ==
    Len(tokens) < k

NotEnough_Distinct(failed, tokens, k) ==
    failed \/ Cardinality({tokens[i] : i \in 1..Len(tokens)}) < k

NotEnough(failed, tokens, k) ==
    failed \/ Len(tokens) < k

\* Lines 30-32.
CheckThreshold ==
    /\ pc = "threshold"
    /\ IF NotEnough(timestampsErr, signedTimestamps, threshold)
       THEN /\ ret' = Failure(ErrNotEnough, Len(signedTimestamps), threshold)
            /\ pc' = "returned"
       ELSE /\ pc' = "signature"
            /\ UNCHANGED ret
    /\ UNCHANGED << threshold, trustedMaterial, entity, signedTimestamps,
                    timestampsErr, signatureBytes, verificationContent,
                    verifiedTimestamps, idx, tried, scanRes, verifyRet, calls >>

\* Lines 34-39: sigContent, err := entity.SignatureContent().
GetSignatureContent ==
    /\ pc = "signature"
    /\ calls' = calls \cup {"SignatureContent"}
    /\ IF entity.signatureErr
       THEN /\ ret' = Failure(ErrSignatureContent, 0, 0)
            /\ pc' = "returned"
            /\ UNCHANGED signatureBytes
       ELSE /\ signatureBytes' = entity.signature
            /\ pc' = "content"
            /\ UNCHANGED ret
    /\ UNCHANGED << threshold, trustedMaterial, entity, signedTimestamps,
                    timestampsErr, verificationContent, verifiedTimestamps,
                    idx, tried, scanRes, verifyRet >>

\* Lines 41-46: verificationContent, err := entity.VerificationContent(),
\* then verifiedTimestamps := []time.Time{} and the loop starts.
GetVerificationContent ==
    /\ pc = "content"
    /\ calls' = calls \cup {"VerificationContent"}
    /\ IF entity.contentErr
       THEN /\ ret' = Failure(ErrVerificationContent, 0, 0)
            /\ pc' = "returned"
            /\ UNCHANGED << verificationContent, idx >>
       ELSE /\ verificationContent' = entity.content
            /\ idx' = 1
            /\ pc' = "loop"
            /\ UNCHANGED ret
    /\ UNCHANGED << threshold, trustedMaterial, entity, signedTimestamps,
                    timestampsErr, signatureBytes, verifiedTimestamps, tried,
                    scanRes, verifyRet >>

\* Line 47 / 54: the range loop takes the next token, or the call returns
\* the verified times.
NextTimestamp ==
    /\ pc = "loop"
    /\ IF idx <= Len(signedTimestamps)
       THEN /\ tried' = << >>
            /\ scanRes' = NoScan
            /\ pc' = "scan"
            /\ UNCHANGED ret
       ELSE /\ ret' = Success(verifiedTimestamps)
            /\ pc' = "returned"
            /\ UNCHANGED << tried, scanRes >>
    /\ UNCHANGED << threshold, trustedMaterial, entity, signedTimestamps,
                    timestampsErr, signatureBytes, verificationContent,
                    verifiedTimestamps, idx, verifyRet, calls >>

\* Lines 61-111: the scan tries the next candidate authority.
TryCandidate_AbortOnFailure ==
    /\ pc = "scan"
    /\ Len(tried) < Len(trustedMaterial)
    /\ LET c == Len(tried) + 1
           r == CandidateChecks(signedTimestamps[idx], signatureBytes,
                                trustedMaterial[c], verificationContent)
       IN  /\ tried' = Append(tried, c)
           /\ calls' = calls \cup r.calls
           /\ IF r.pass
              THEN /\ scanRes' = [ok |-> TRUE, time |-> r.time, err |-> NoError, via |-> c]
                   /\ pc' = "scanned"
              ELSE IF "Leaf.Verify" \in r.calls
              THEN /\ scanRes' = [ok |-> FALSE, time |-> ZeroTime,
                                  err |-> ErrUnableSigned, via |-> 0]
                   /\ pc' = "scanned"
              ELSE UNCHANGED << scanRes, pc >>
    /\ UNCHANGED << threshold, trustedMaterial, entity, signedTimestamps,
                    timestampsErr, signatureBytes, verificationContent,
                    verifiedTimestamps, idx, ret, verifyRet >>

TryCandidate_FirstOnly ==
    /\ pc = "scan"
    /\ Len(tried) < Len(trustedMaterial)
    /\ LET c == Len(tried) + 1
           r == CandidateChecks(signedTimestamps[idx], signatureBytes,
                                trustedMaterial[c], verificationContent)
       IN  /\ tried' = Append(tried, c)
           /\ calls' = calls \cup r.calls
           /\ pc' = "scanned"
           /\ scanRes' = IF r.pass
                         THEN [ok |-> TRUE, time |-> r.time, err |-> NoError, via |-> c]
                         ELSE [ok |-> FALSE, time |-> ZeroTime,
                               err |-> ErrUnableSigned, via |-> 0]
    /\ UNCHANGED << threshold, trustedMaterial, entity, signedTimestamps,
                    timestampsErr, signatureBytes, verificationContent,
                    verifiedTimestamps, idx, ret, verifyRet >>

TryCandidate_LastMatch ==
    /\ pc = "scan"
    /\ Len(tried) < Len(trustedMaterial)
    /\ LET c == Len(tried) + 1
           r == CandidateChecks(signedTimestamps[idx], signatureBytes,
                                trustedMaterial[c], verificationContent)
       IN  /\ tried' = Append(tried, c)
           /\ calls' = calls \cup r.calls
           /\ IF r.pass
              THEN /\ scanRes' = [ok |-> TRUE, time |-> r.time, err |-> NoError, via |-> c]
                   /\ pc' = IF c = Len(trustedMaterial) THEN "scanned" ELSE "scan"
              ELSE IF c = Len(trustedMaterial) /\ scanRes.ok
              THEN /\ pc' = "scanned"
                   /\ UNCHANGED scanRes
              ELSE UNCHANGED << scanRes, pc >>
    /\ UNCHANGED << threshold, trustedMaterial, entity, signedTimestamps,
                    timestampsErr, signatureBytes, verificationContent,
                    verifiedTimestamps, idx, ret, verifyRet >>

TryCandidate ==
    /\ pc = "scan"
    /\ Len(tried) < Len(trustedMaterial)
    /\ LET c == Len(tried) + 1
           r == CandidateChecks(signedTimestamps[idx], signatureBytes,
                                trustedMaterial[c], verificationContent)
       IN  /\ tried' = Append(tried, c)
           /\ calls' = calls \cup r.calls
           /\ IF r.pass
              THEN /\ scanRes' = [ok |-> TRUE, time |-> r.time, err |-> NoError, via |-> c]
                   /\ pc' = "scanned"
              ELSE UNCHANGED << scanRes, pc >>
    /\ UNCHANGED << threshold, trustedMaterial, entity, signedTimestamps,
                    timestampsErr, signatureBytes, verificationContent,
                    verifiedTimestamps, idx, ret, verifyRet >>

\* Line 113: every candidate was tried and none returned.
ScanExhausted ==
    /\ pc = "scan"
    /\ Len(tried) = Len(trustedMaterial)
    /\ scanRes' = [ok |-> FALSE, time |-> ZeroTime, err |-> ErrUnableSigned, via |-> 0]
    /\ pc' = "scanned"
    /\ UNCHANGED << threshold, trustedMaterial, entity, signedTimestamps,
                    timestampsErr, signatureBytes, verificationContent,
                    verifiedTimestamps, idx, tried, ret, verifyRet, calls >>

\* Line 52: verifiedTimestamps = append(verifiedTimestamps, t).
Collect_Prepend(times, t) ==
    << t >> \o times

Collect(times, t) ==
    Append(times, t)

\* Lines 49-51: what NewVerify returns when a token does not verify.
UnverifiedTimestamp_Partial(times) ==
    [err |-> ErrUnableTimestamp, isNil |-> FALSE, times |-> times,
     observed |-> 0, required |-> 0]

UnverifiedTimestamp(times) ==
    Failure(ErrUnableTimestamp, 0, 0)

\* Lines 48-53: back in the token loop with the scan's result.
AfterScan_SkipUnverified ==
    /\ pc = "scanned"
    /\ verifiedTimestamps' = IF scanRes.ok THEN Collect(verifiedTimestamps, scanRes.time)
                             ELSE verifiedTimestamps
    /\ idx' = idx + 1
    /\ pc' = "loop"
    /\ UNCHANGED << threshold, trustedMaterial, entity, signedTimestamps,
                    timestampsErr, signatureBytes, verificationContent, tried,
                    scanRes, ret, verifyRet, calls >>

AfterScan ==
    /\ pc = "scanned"
    /\ IF ~scanRes.ok
       THEN /\ ret' = UnverifiedTimestamp(verifiedTimestamps)
            /\ pc' = "returned"
            /\ UNCHANGED << verifiedTimestamps, idx >>
       ELSE /\ verifiedTimestamps' = Collect(verifiedTimestamps, scanRes.time)
            /\ idx' = idx + 1
            /\ pc' = "loop"
            /\ UNCHANGED ret
    /\ UNCHANGED << threshold, trustedMaterial, entity, signedTimestamps,
                    timestampsErr, signatureBytes, verificationContent, tried,
                    scanRes, verifyRet, calls >>

\* Lines 21-24: Verify returns NewVerify's error and drops the times.
VerifyReturn ==
    /\ pc = "returned"
    /\ verifyRet' = ret.err
    /\ pc' = "done"
    /\ UNCHANGED << threshold, trustedMaterial, entity, signedTimestamps,
                    timestampsErr, signatureBytes, verificationContent,
                    verifiedTimestamps, idx, tried, scanRes, ret, calls >>

Next ==
    \/ GetTimestamps
    \/ CheckThreshold
    \/ GetSignatureContent
    \/ GetVerificationContent
    \/ NextTimestamp
    \/ TryCandidate
    \/ ScanExhausted
    \/ AfterScan
    \/ VerifyReturn

Spec ==
    Init /\ [][Next]_vars

\* ---------------------------------------------------------------- the scan alone

\* verifySignedTimestamp called on one token with any signature bytes
\* covered or not, any candidate list and any verification content.
InitScan ==
    /\ threshold = 0
    /\ trustedMaterial \in SeqsUpTo(CAPool, MaxCAs)
    /\ \E tok \in TokenPool, vc \in VCPool :
          /\ entity = [ timestamps |-> << tok >>, timestampsErr |-> FALSE,
                        signature |-> GoodSig, signatureErr |-> FALSE,
                        content |-> vc, contentErr |-> FALSE ]
          /\ signedTimestamps = << tok >>
          /\ verificationContent = vc
    /\ pc = "scan"
    /\ timestampsErr = FALSE
    /\ signatureBytes = GoodSig
    /\ verifiedTimestamps = << >>
    /\ idx = 1
    /\ tried = << >>
    /\ scanRes = NoScan
    /\ ret = NotReturned
    /\ verifyRet = Pending
    /\ calls = {"Timestamps", "SignatureContent", "VerificationContent"}

NextScan ==
    \/ TryCandidate
    \/ ScanExhausted

SpecScan ==
    InitScan /\ [][NextScan]_vars

\* ---------------------------------------------------------------- properties

\* The four checks of one candidate, stated on the collaborators' answers.
AllChecksPass(tok, sig, ca, vc) ==
    LET ts == VerifyTimestampResponse(tok, sig, ca)
    IN  /\ ts.ok
        /\ LeafVerify(ca, ts.time)
        /\ WithinValidityPeriod(ca, ts.time)
        /\ ValidAtTime(vc, ts.time)

\* The token passes every check but the validity window under ca.
OtherwiseValid(tok, sig, ca, vc) ==
    LET ts == VerifyTimestampResponse(tok, sig, ca)
    IN  ts.ok /\ LeafVerify(ca, ts.time) /\ ValidAtTime(vc, ts.time)

\* Some authority of the trusted material verifies the entity's token.
Verifiable(tok) ==
    \E c \in 1..Len(trustedMaterial) :
        AllChecksPass(tok, entity.signature, trustedMaterial[c], entity.content)

AccessorsSucceed ==
    ~entity.timestampsErr /\ ~entity.signatureErr /\ ~entity.contentErr

\* The token the scan is about, and the candidates that pass all checks.
ScanToken ==
    signedTimestamps[idx]

Passing ==
    { c \in 1..Len(trustedMaterial) :
        AllChecksPass(ScanToken, signatureBytes, trustedMaterial[c],
                      verificationContent) }

Min(S) ==
    CHOOSE m \in S : \A n \in S : m <= n

Orderings(n) ==
    { f \in [1..n -> 1..n] : \A i, j \in 1..n : f[i] = f[j] => i = j }

Reorder(cas, f) ==
    [ i \in 1..Len(cas) |-> cas[f[i]] ]

\* The stepwise scan and the function agree (a check of the model itself).
ScanAgrees ==
    pc = "scanned" =>
        LET r == verifySignedTimestamp(ScanToken, signatureBytes,
                                       trustedMaterial, verificationContent)
        IN  scanRes.ok = r.ok /\ scanRes.time = r.time

\* C1: when Timestamps() fails or returns fewer tokens than the threshold,
\* NewVerify and Verify fail with "not enough signed timestamps", whatever
\* the tokens, the trusted material and the other accessors would do.
C1_NotEnoughTimestamps ==
    (pc = "done" /\ (entity.timestampsErr \/ Len(entity.timestamps) < threshold))
        => /\ ret.err = ErrNotEnough
           /\ ret.isNil
           /\ ret.observed = Len(entity.timestamps)
           /\ ret.required = threshold
           /\ verifyRet = ErrNotEnough

C1_Witness ==
    /\ pc = "done"
    /\ ~entity.timestampsErr
    /\ entity.signatureErr
    /\ threshold = 3
    /\ Len(entity.timestamps) = 2
    /\ \A i \in 1..2 : Verifiable(entity.timestamps[i])
    /\ verifyRet = ErrNotEnough

C3_AllTokensMustVerify ==
    /\ (/\ pc = "done"
        /\ AccessorsSucceed
        /\ Len(entity.timestamps) >= threshold
        /\ \E i \in 1..Len(entity.timestamps) : ~Verifiable(entity.timestamps[i]))
          => /\ ret.err = ErrUnableTimestamp
             /\ verifyRet = ErrUnableTimestamp
    /\ ret.err # NoError => ret.isNil /\ ret.times = << >>

C3_Witness ==
    /\ pc = "done"
    /\ AccessorsSucceed
    /\ threshold = 2
    /\ Len(entity.timestamps) = 3
    /\ Verifiable(entity.timestamps[1])
    /\ Verifiable(entity.timestamps[2])
    /\ ~Verifiable(entity.timestamps[3])
    /\ verifiedTimestamps # << >>
    /\ ret.err = ErrUnableTimestamp
    /\ ret.isNil

\* C4: a token that passes token verification under a candidate which then
\* fails a later check, and passes every check under a later candidate,
\* verifies with the time derived under the later candidate.
C4_ContinueOnCandidateFailure ==
    pc = "scanned" =>
        \A c1, c2 \in 1..Len(trustedMaterial) :
            (/\ c1 < c2
             /\ VerifyTimestampResponse(ScanToken, signatureBytes,
                                        trustedMaterial[c1]).ok
             /\ ~AllChecksPass(ScanToken, signatureBytes, trustedMaterial[c1],
                               verificationContent)
             /\ AllChecksPass(ScanToken, signatureBytes, trustedMaterial[c2],
                              verificationContent))
                => /\ scanRes.ok
                   /\ scanRes.time =
                        VerifyTimestampResponse(ScanToken, signatureBytes,
                                                trustedMaterial[c2]).time

C4_Witness ==
    /\ pc = "scanned"
    /\ Len(trustedMaterial) = 3
    /\ \A c \in 1..3 : VerifyTimestampResponse(ScanToken, signatureBytes,
                                               trustedMaterial[c]).ok
    /\ ~LeafVerify(trustedMaterial[1], ScanToken.time)
    /\ LeafVerify(trustedMaterial[2], ScanToken.time)
    /\ ~WithinValidityPeriod(trustedMaterial[2], ScanToken.time)
    /\ scanRes.ok
    /\ scanRes.via = 3

\* C5: a token that passes all checks under exactly one authority verifies
\* with the time derived under it, wherever that authority stands: every
\* reordering of the candidate list gives the same result.
C5_OrderIndependent ==
    (pc = "scanned" /\ Cardinality(Passing) = 1)
        => /\ scanRes.ok
           /\ scanRes.time = ScanToken.time
           /\ \A f \in Orderings(Len(trustedMaterial)) :
                LET r == verifySignedTimestamp(ScanToken, signatureBytes,
                                               Reorder(trustedMaterial, f),
                                               verificationContent)
                IN  r.ok = scanRes.ok /\ r.time = scanRes.time

C5_Witness ==
    /\ pc = "scanned"
    /\ Len(trustedMaterial) = 3
    /\ Passing = {3}
    /\ scanRes.ok
    /\ scanRes.via = 3

\* C6: a successful NewVerify returns one time per attached token, the
\* i-th being the verified time of the i-th token: input order, unsorted.
C6_InputOrder ==
    ret.err = NoError
        => /\ ~ret.isNil
           /\ Len(ret.times) = Len(entity.timestamps)
           /\ \A i \in 1..Len(entity.timestamps) :
                LET r == verifySignedTimestamp(entity.timestamps[i], entity.signature,
                                               trustedMaterial, entity.content)
                IN  r.ok /\ ret.times[i] = r.time

C6_Witness ==
    /\ pc = "done"
    /\ verifyRet = NoError
    /\ Len(entity.timestamps) = 2
    /\ entity.timestamps[1].time = 2
    /\ entity.timestamps[2].time = 1
    /\ ret.times = << 2, 1 >>

\* C7: an unset validity bound does not constrain the token's time: against
\* an otherwise valid candidate, no bound set means every time verifies,
\* and one bound set means that bound alone decides.
C7_UnsetBoundsUnbounded ==
    pc = "scanned" =>
        /\ \A c \in 1..Len(trustedMaterial) :
            LET ca == trustedMaterial[c]
                S == ca.ValidityPeriodStart
                E == ca.ValidityPeriodEnd
                T == ScanToken.time
            IN  OtherwiseValid(ScanToken, signatureBytes, ca, verificationContent)
                    => /\ (IsZero(S) /\ IsZero(E)) => scanRes.ok
                       /\ (IsZero(S) /\ ~IsZero(E) /\ T <= E) => scanRes.ok
                       /\ (~IsZero(S) /\ IsZero(E) /\ S <= T) => scanRes.ok
        /\ (/\ Len(trustedMaterial) = 1
            /\ OtherwiseValid(ScanToken, signatureBytes, trustedMaterial[1],
                              verificationContent))
              => LET S == trustedMaterial[1].ValidityPeriodStart
                     E == trustedMaterial[1].ValidityPeriodEnd
                     T == ScanToken.time
                 IN  /\ (IsZero(S) /\ ~IsZero(E)) => (scanRes.ok <=> T <= E)
                     /\ (~IsZero(S) /\ IsZero(E)) => (scanRes.ok <=> S <= T)

C7_Witness ==
    /\ pc = "scanned"
    /\ Len(trustedMaterial) = 1
    /\ IsZero(trustedMaterial[1].ValidityPeriodStart)
    /\ IsZero(trustedMaterial[1].ValidityPeriodEnd)
    /\ ScanToken.time = MaxTime
    /\ scanRes.ok
    /\ scanRes.time = MaxTime

\* C8: a call that fails with "not enough signed timestamps" has called
\* Timestamps() and nothing else: no other accessor, no collaborator.
C8_ThresholdBeforeCrypto ==
    ret.err = ErrNotEnough => calls = {"Timestamps"}

C8_Witness ==
    /\ pc = "done"
    /\ threshold = 2
    /\ Len(signedTimestamps) = 1
    /\ ~timestampsErr
    /\ verifyRet = ErrNotEnough
    /\ calls = {"Timestamps"}

\* C9: the scan returns the time derived under the first candidate, in
\* order, that passes all four checks, having tried exactly the candidates
\* up to it; when none passes it tries them all and fails with "Unable to
\* verify signed timestamps".
C9_FirstMatchWins ==
    pc = "scanned" =>
        IF Passing # {}
        THEN /\ scanRes.ok
             /\ scanRes.err = NoError
             /\ scanRes.via = Min(Passing)
             /\ scanRes.time =
                  VerifyTimestampResponse(ScanToken, signatureBytes,
                                          trustedMaterial[Min(Passing)]).time
             /\ tried = [ i \in 1..Min(Passing) |-> i ]
        ELSE /\ ~scanRes.ok
             /\ scanRes.err = ErrUnableSigned
             /\ scanRes.time = ZeroTime
             /\ tried = [ i \in 1..Len(trustedMaterial) |-> i ]

C9_Witness ==
    /\ pc = "scanned"
    /\ Passing = {2, 3}
    /\ scanRes.ok
    /\ scanRes.via = 2
    /\ tried = << 1, 2 >>

\* C10: the threshold counts attached tokens, not distinct ones: k copies of
\* one token that verifies meet threshold k, and NewVerify returns k equal
\* times.
C10_NoDeduplication ==
    (/\ pc = "done"
     /\ AccessorsSucceed
     /\ threshold >= 1
     /\ Len(entity.timestamps) = threshold
     /\ \A i \in 1..Len(entity.timestamps) :
            entity.timestamps[i] = entity.timestamps[1]
     /\ Verifiable(entity.timestamps[1]))
        => /\ verifyRet = NoError
           /\ ret.err = NoError
           /\ ret.times = [ i \in 1..threshold |-> entity.timestamps[1].time ]

C10_Witness ==
    /\ pc = "done"
    /\ threshold = 3
    /\ Len(entity.timestamps) = 3
    /\ entity.timestamps[2] = entity.timestamps[1]
    /\ entity.timestamps[3] = entity.timestamps[1]
    /\ verifyRet = NoError
    /\ Len(ret.times) = 3
    /\ ret.times[1] = ret.times[3]
====
